---- MODULE Spec2Model ----
(***************************************************************************)
(* A model of the MyVoiceBot temporary voice channel bot (src/bot).        *)
(*                                                                         *)
(* The bot runs on one asyncio event loop.  Every coroutine (an event      *)
(* handler, a monitoring loop, the cleanup command, a control panel        *)
(* callback) runs without interruption from one `await` to the next, and   *)
(* other coroutines and platform events interleave at the awaits.  A task  *)
(* of the model is a coroutine suspended at an await; one action resumes   *)
(* it with the outcome of the awaited platform call and runs it to its     *)
(* next await or to its end.                                                *)
(***************************************************************************)
EXTENDS Integers, Sequences, FiniteSets, Bags, TLC

\* ------------------------------------------------------------- bounds
MaxChannels == 2      \* channels the platform hands out before lobby joins stop
MaxTasks == 3         \* coroutines in flight at once
MaxEvents == 3        \* platform events (joins, leaves, clicks, commands) in a run

\* ---------------------------------------------------- program constants
NoChannel == 0            \* VoiceState.channel is None
MAIN_CHANNEL_ID == 1      \* the lobby channel
MAIN_CATEGORY_ID == 1     \* the category the channels are created under
NoMessage == 0            \* 'control_message' not in channel_info
Users == {"ann", "bob"}
default_role == "@everyone"
ChannelIds == (MAIN_CHANNEL_ID + 1)..(MAIN_CHANNEL_ID + MaxChannels)
\* A voice channel of the guild that the bot did not create.
UnmanagedChannel == MAIN_CHANNEL_ID + MaxChannels + 1

VARIABLES
    voice,             \* member -> the voice channel the member is connected to
    channels,          \* the guild's managed voice channels: id -> attributes
    messages,          \* channel id -> creator_id of the view on its control message
    next_id,           \* the id the platform gives the next created channel
    created_channels,  \* VoiceBot.created_channels
    tasks,             \* bag of suspended coroutines
    admins,            \* members holding guild_permissions.administrator
    result,            \* outcome of the channel.delete() the last step completed,
                       \* "returned" after a call of the procedure that did nothing
    report,            \* count sent by the last finished cleanup command, or -1
    reply,             \* member -> the last interaction response sent to them
    events             \* platform events so far

vars == <<voice, channels, messages, next_id, created_channels, tasks, admins,
          result, report, reply, events>>

\* ------------------------------------------------------------- helpers
members(c) == {u \in Users : voice[u] = c}

is_channel_empty(c) == Cardinality(members(c)) = 0

get_channel(c) == IF c \in DOMAIN channels THEN c ELSE NoChannel

display_name(u) == u

create_channel_name(u) == "speaker " \o display_name(u)

\* A discord.PermissionOverwrite: the permissions it sets, each with its value.
create_channel_overwrites(u) ==
    [x \in {u} |-> {<<"manage_channels", TRUE>>, <<"manage_permissions", TRUE>>,
                    <<"move_members", TRUE>>}]

Task(kind, member, before, after, ch, pc) ==
    [kind |-> kind, member |-> member, before |-> before, after |-> after,
     ch |-> ch, pc |-> pc, todo |-> <<>>, cleaned |-> 0, deleted |-> 0,
     name |-> "", user_limit |-> 0, overwrites |-> <<>>, auth |-> TRUE]

NTasks == BagCardinality(tasks)

\* Mutant: removing one key empties the dict.
Pop_All(cc, c) == <<>>

\* dict.pop(c, None): the dict without the key c.
Pop(cc, c) == [x \in DOMAIN cc \ {c} |-> cc[x]]

\* What an awaited platform call on channel c can come back with.
ChannelOutcomes(c) ==
    IF c \in DOMAIN channels THEN {"ok", "forbidden", "error"}
    ELSE {"not_found", "error"}

\* The voice-state events of the members a deleted channel disconnects.
Disconnected(c) ==
    {Task("voice", u, c, NoChannel, NoChannel, "start") : u \in members(c)}

\* The platform deleting channel c: its messages go with it and its members
\* are disconnected.
ChannelsAfterDelete(c) == [x \in DOMAIN channels \ {c} |-> channels[x]]

VoiceAfterDelete(c) == [u \in Users |-> IF voice[u] = c THEN NoChannel ELSE voice[u]]

\* The bag of tasks after task t stepped to the tasks of `next`.
Replace(t, next) == (tasks (-) SetToBag({t})) (+) SetToBag(next)

Room(t, next) == NTasks - 1 + Cardinality(next) <= MaxTasks

\* ------------------------------------------------- deletion procedure
\* Mutant: the procedure does not look the channel up in the registry.
CleanupEntry_Unregistered(c, cc) ==
    IF ~is_channel_empty(c) THEN "return"
    ELSE IF c \in DOMAIN cc /\ cc[c].control_message # NoMessage THEN "cm_fetch"
    ELSE "ch_delete"

\* _cleanup_empty_channel from its entry to its first await: the await the
\* caller is suspended at, or "return" when the procedure does nothing.
CleanupEntry(c, cc) ==
    IF c \in DOMAIN cc
    THEN IF ~is_channel_empty(c) THEN "return"
         ELSE IF cc[c].control_message # NoMessage THEN "cm_fetch"
         ELSE "ch_delete"
    ELSE "return"

\* cleanup_channels from one loop iteration to its next await.
RECURSIVE SweepRun(_, _, _, _)
SweepRun(todo, cleaned, deleted, cc) ==
    IF todo = <<>>
    THEN [cc |-> cc,
          task |-> [Task("sweep", "", NoChannel, NoChannel, NoChannel, "send")
                    EXCEPT !.cleaned = cleaned, !.deleted = deleted]]
    ELSE LET c == Head(todo) IN
         IF get_channel(c) = NoChannel
         THEN SweepRun(Tail(todo), cleaned, deleted, Pop(cc, c))
         ELSE IF is_channel_empty(c)
              THEN LET e == CleanupEntry(c, cc) IN
                   IF e = "return"
                   THEN SweepRun(Tail(todo), cleaned + 1, deleted, cc)
                   ELSE [cc |-> cc,
                         task |-> [Task("sweep", "", NoChannel, NoChannel, c, e)
                                   EXCEPT !.todo = Tail(todo), !.cleaned = cleaned,
                                          !.deleted = deleted]]
              ELSE SweepRun(Tail(todo), cleaned, deleted, cc)

\* The caller of _cleanup_empty_channel once the procedure has returned:
\* the registry and the task it continues as (none when it ends).
AfterCleanup(t, cc, did) ==
    IF t.kind = "sweep"
    THEN LET r == SweepRun(t.todo, t.cleaned + 1, t.deleted + did, cc) IN
         [cc |-> r.cc, next |-> {r.task}]
    ELSE [cc |-> cc, next |-> {}]

\* Mutant: a failure to fetch the control message ends the procedure.
CmFetch_Escapes(t) ==
    /\ t.pc = "cm_fetch"
    /\ \E o \in (IF t.ch \in DOMAIN messages THEN {"ok", "forbidden", "error"}
                 ELSE {"not_found", "error"}) :
        /\ result' = "none"
        /\ tasks' = Replace(t, IF o = "ok" THEN {[t EXCEPT !.pc = "cm_delete"]}
                               ELSE {})
    /\ UNCHANGED <<voice, channels, messages, next_id, created_channels, admins,
                   report, reply, events>>

\* await channel.fetch_message(message_id) returns.
CmFetch(t) ==
    /\ t.pc = "cm_fetch"
    /\ \E o \in (IF t.ch \in DOMAIN messages THEN {"ok", "forbidden", "error"}
                 ELSE {"not_found", "error"}) :
        /\ result' = "none"
        /\ tasks' = Replace(t, {[t EXCEPT !.pc = IF o = "ok" THEN "cm_delete"
                                                 ELSE "ch_delete"]})
    /\ UNCHANGED <<voice, channels, messages, next_id, created_channels, admins,
                   report, reply, events>>

\* await control_message.delete() returns.
CmDelete(t) ==
    /\ t.pc = "cm_delete"
    /\ \E o \in (IF t.ch \in DOMAIN messages THEN {"ok", "forbidden", "error"}
                 ELSE {"not_found", "error"}) :
        /\ result' = "none"
        /\ messages' = IF o = "ok" THEN Pop(messages, t.ch) ELSE messages
    /\ tasks' = Replace(t, {[t EXCEPT !.pc = "ch_delete"]})
    /\ UNCHANGED <<voice, channels, next_id, created_channels, admins,
                   report, reply, events>>

\* Mutant: the entry is dropped whatever the delete call came back with.
RegistryAfterDelete_AnyOutcome(c, o) == Pop(created_channels, c)

\* The registry after await channel.delete() came back with outcome o.
RegistryAfterDelete(c, o) ==
    IF o \in {"ok", "not_found"} THEN Pop(created_channels, c)
    ELSE created_channels

\* await channel.delete() returns in _cleanup_empty_channel.
ChDelete(t) ==
    /\ t.pc = "ch_delete"
    /\ \E o \in ChannelOutcomes(t.ch) :
        LET r == AfterCleanup(t, RegistryAfterDelete(t.ch, o),
                              IF o = "ok" THEN 1 ELSE 0)
            gone == IF o = "ok" THEN Disconnected(t.ch) ELSE {}
        IN /\ Room(t, r.next \cup gone)
           /\ result' = o
           /\ created_channels' = r.cc
           /\ tasks' = Replace(t, r.next \cup gone)
           /\ channels' = IF o = "ok" THEN ChannelsAfterDelete(t.ch) ELSE channels
           /\ messages' = IF o = "ok" THEN Pop(messages, t.ch) ELSE messages
           /\ voice' = IF o = "ok" THEN VoiceAfterDelete(t.ch) ELSE voice
    /\ UNCHANGED <<next_id, admins, report, reply, events>>

\* Mutant: the handler does not look at the channel the member left.
LeaveCheck_Skipped(t, cc) == {}

\* ------------------------------------------------ on_voice_state_update
\* The second half of on_voice_state_update (the member left a managed
\* channel): the task the handler continues as, none when it returns.
LeaveCheck(t, cc) ==
    IF /\ t.before # NoChannel
       /\ t.before \in DOMAIN cc
       /\ (t.after = NoChannel \/ t.after # t.before)
       /\ is_channel_empty(t.before)
    THEN LET e == CleanupEntry(t.before, cc) IN
         IF e = "return" THEN {}
         ELSE {[t EXCEPT !.ch = t.before, !.pc = e]}
    ELSE {}

\* Mutant: every monitoring loop is started for the first channel id.
Monitor_First(c) ==
    Task("monitor", "", NoChannel, NoChannel, MAIN_CHANNEL_ID + 1, "start")

\* asyncio.create_task(self._monitor_channel(temp_channel))
Monitor(c) == Task("monitor", "", NoChannel, NoChannel, c, "start")

\* Mutant: a monitoring loop is started although no channel was created.
CreationFailed_Monitored(t) ==
    {Monitor(next_id)} \cup LeaveCheck(t, created_channels)

\* _create_temp_channel returned before a channel existed (category not
\* found, or create_voice_channel raised): the handler goes on to its leave
\* check and nothing else was started.
CreationFailed(t) == LeaveCheck(t, created_channels)

\* The handler starts: a join of the lobby looks the category up and awaits
\* guild.create_voice_channel; anything else goes on to the leave check.
VoiceStart(t) ==
    /\ t.kind = "voice" /\ t.pc = "start"
    /\ \/ /\ t.after = MAIN_CHANNEL_ID
          /\ tasks' = Replace(t, {[t EXCEPT !.pc = "create"]})
       \/ /\ t.after = MAIN_CHANNEL_ID      \* the category is not found
          /\ tasks' = Replace(t, CreationFailed(t))
       \/ /\ t.after # MAIN_CHANNEL_ID
          /\ tasks' = Replace(t, LeaveCheck(t, created_channels))
    /\ result' = "none"
    /\ UNCHANGED <<voice, channels, messages, next_id, created_channels, admins,
                   report, reply, events>>

\* Mutant: the channel is created without the member's grant.
NewChannel_NoGrant(u) ==
    [name |-> create_channel_name(u), category |-> MAIN_CATEGORY_ID,
     user_limit |-> 0, overwrites |-> <<>>]

NewChannel(u) ==
    [name |-> create_channel_name(u), category |-> MAIN_CATEGORY_ID,
     user_limit |-> 0, overwrites |-> create_channel_overwrites(u)]

NewEntry(u) == [creator |-> u, control_message |-> NoMessage]

\* Mutant: the entry is keyed by the channel the member joined.
Register_Lobby(c, u) == (MAIN_CHANNEL_ID :> NewEntry(u)) @@ created_channels

\* self.created_channels[temp_channel.id] = {...}
Register(c, u) == (c :> NewEntry(u)) @@ created_channels

\* await guild.create_voice_channel(...) returns; on success the channel is
\* tracked and the handler awaits member.move_to.
VoiceCreate(t) ==
    /\ t.kind = "voice" /\ t.pc = "create"
    /\ \E o \in {"ok", "forbidden", "error"} :
        /\ result' = "none"
        /\ IF o = "ok"
           THEN /\ next_id \in ChannelIds
                /\ channels' = (next_id :> NewChannel(t.member)) @@ channels
                /\ created_channels' = Register(next_id, t.member)
                /\ next_id' = next_id + 1
                /\ tasks' = Replace(t, {[t EXCEPT !.pc = "move", !.ch = next_id]})
           ELSE /\ tasks' = Replace(t, CreationFailed(t))
                /\ UNCHANGED <<channels, created_channels, next_id>>
    /\ UNCHANGED <<voice, messages, admins, report, reply, events>>

\* await member.move_to(temp_channel) returns: it fails when the member is
\* connected to no voice channel or the channel is gone, and a failure
\* leaves _create_temp_channel through its except clause.
VoiceMove(t) ==
    /\ t.kind = "voice" /\ t.pc = "move"
    /\ \E o \in (IF voice[t.member] # NoChannel /\ t.ch \in DOMAIN channels
                 THEN {"ok", "forbidden", "error"} ELSE {"error"}) :
        /\ result' = "none"
        /\ IF o = "ok"
           THEN LET moved == Task("voice", t.member, voice[t.member], t.ch,
                                  NoChannel, "start")
                    next == {[t EXCEPT !.pc = "post"], moved}
                IN /\ Room(t, next)
                   /\ voice' = [voice EXCEPT ![t.member] = t.ch]
                   /\ tasks' = Replace(t, next)
           ELSE /\ tasks' = Replace(t, LeaveCheck(t, created_channels))
                /\ UNCHANGED voice
    /\ UNCHANGED <<channels, messages, next_id, created_channels, admins,
                   report, reply, events>>

\* await send_control_message(...) returns.  With a message id the entry is
\* updated, which raises KeyError when the entry is gone; otherwise the
\* monitoring loop is started.  Then the leave check.
VoicePost(t) ==
    /\ t.kind = "voice" /\ t.pc = "post"
    /\ \E o \in ChannelOutcomes(t.ch) :
        LET keyerror == o = "ok" /\ t.ch \notin DOMAIN created_channels
            cc == IF o = "ok" /\ ~keyerror
                  THEN [created_channels EXCEPT ![t.ch].control_message = t.ch]
                  ELSE created_channels
            next == (IF keyerror THEN {} ELSE {Monitor(t.ch)})
                    \cup LeaveCheck(t, cc)
        IN /\ Room(t, next)
           /\ result' = "none"
           /\ messages' = IF o = "ok" THEN (t.ch :> t.member) @@ messages ELSE messages
           /\ created_channels' = cc
           /\ tasks' = Replace(t, next)
    /\ UNCHANGED <<voice, channels, next_id, admins, report, reply, events>>

\* ------------------------------------------------------ _monitor_channel
\* The loop's condition, evaluated when the task starts and after a tick
\* that found the channel occupied.
MonitorLoop(t, cc) ==
    IF t.ch \in DOMAIN cc THEN {[t EXCEPT !.pc = "sleep"]} ELSE {}

MonitorStart(t) ==
    /\ t.kind = "monitor" /\ t.pc = "start"
    /\ tasks' = Replace(t, MonitorLoop(t, created_channels))
    /\ result' = "none"
    /\ UNCHANGED <<voice, channels, messages, next_id, created_channels, admins,
                   report, reply, events>>

\* What one tick does once the channel was resolved and found empty.
MonitorEmpty(t) ==
    LET e == CleanupEntry(t.ch, created_channels) IN
    IF e = "return" THEN {} ELSE {[t EXCEPT !.pc = e]}

\* Mutant: the entry of a channel that cannot be resolved is kept.
Unresolved_Kept(c) == created_channels

\* The registry once get_channel returned None: the channel was deleted by
\* somebody else, its entry is dropped.
Unresolved(c) == Pop(created_channels, c)

\* await asyncio.sleep(CHANNEL_MONITOR_INTERVAL) returns: one tick.
MonitorTick(t) ==
    /\ t.kind = "monitor" /\ t.pc = "sleep"
    /\ IF get_channel(t.ch) = NoChannel
       THEN /\ created_channels' = Unresolved(t.ch)
            /\ tasks' = Replace(t, {})
       ELSE /\ UNCHANGED created_channels
            /\ tasks' = Replace(t, IF is_channel_empty(t.ch) THEN MonitorEmpty(t)
                                   ELSE MonitorLoop(t, created_channels))
    /\ result' = "none"
    /\ UNCHANGED <<voice, channels, messages, next_id, admins, report, reply,
                   events>>

\* ------------------------------------------------------ cleanup_channels
\* list(self.created_channels.items()): the keys in insertion order, which
\* is the order of the ids.
RECURSIVE Items(_)
Items(S) ==
    IF S = {} THEN <<>>
    ELSE LET c == CHOOSE x \in S : \A y \in S : x <= y
         IN <<c>> \o Items(S \ {c})

\* An administrator sends the cleanup command; the loop runs to its first
\* await.
CleanupCommand ==
    /\ events < MaxEvents
    /\ NTasks < MaxTasks
    /\ LET r == SweepRun(Items(DOMAIN created_channels), 0, 0, created_channels)
       IN /\ created_channels' = r.cc
          /\ tasks' = tasks (+) SetToBag({r.task})
    /\ events' = events + 1
    /\ result' = "none"
    /\ UNCHANGED <<voice, channels, messages, next_id, admins, report, reply>>

\* await ctx.send(f"Cleaned up {cleaned} empty channels") returns.
SweepSend(t) ==
    /\ t.kind = "sweep" /\ t.pc = "send"
    /\ \E o \in {"ok", "error"} :
        /\ result' = "none"
        /\ report' = IF o = "ok" THEN t.cleaned ELSE report
    /\ tasks' = Replace(t, {})
    /\ UNCHANGED <<voice, channels, messages, next_id, created_channels, admins,
                   reply, events>>

\* ------------------------------------------------------- platform events
\* Lobby joins whose handler has not yet created its channel.
PendingCreations ==
    LET S == {t \in BagToSet(tasks) :
                t.kind = "voice" /\ t.after = MAIN_CHANNEL_ID
                /\ t.pc \in {"start", "create"}}
        RECURSIVE Sum(_)
        Sum(T) == IF T = {} THEN 0
                  ELSE LET x == CHOOSE y \in T : TRUE
                       IN CopiesIn(x, tasks) + Sum(T \ {x})
    IN Sum(S)

IdsLeft == (MAIN_CHANNEL_ID + MaxChannels + 1) - next_id - PendingCreations

\* A member joins, leaves or switches voice channel.  The cache is updated,
\* then on_voice_state_update is dispatched as a task of its own.
VoiceStateUpdate(u, x) ==
    /\ events < MaxEvents
    /\ NTasks < MaxTasks
    /\ x \in {NoChannel, MAIN_CHANNEL_ID, UnmanagedChannel} \cup DOMAIN channels
    /\ x # voice[u]
    /\ x = MAIN_CHANNEL_ID => IdsLeft > 0
    /\ voice' = [voice EXCEPT ![u] = x]
    /\ tasks' = tasks (+) SetToBag({Task("voice", u, voice[u], x, NoChannel, "start")})
    /\ events' = events + 1
    /\ result' = "none"
    /\ UNCHANGED <<channels, messages, next_id, created_channels, admins,
                   report, reply>>

\* A connected member changes a flag of their voice state (mute, deafen,
\* video): the handler is dispatched with before.channel = after.channel.
VoiceFlagUpdate(u) ==
    /\ events < MaxEvents
    /\ NTasks < MaxTasks
    /\ voice[u] # NoChannel
    /\ voice[u] = MAIN_CHANNEL_ID => IdsLeft > 0
    /\ tasks' = tasks (+) SetToBag({Task("voice", u, voice[u], voice[u], NoChannel,
                                         "start")})
    /\ events' = events + 1
    /\ result' = "none"
    /\ UNCHANGED <<voice, channels, messages, next_id, created_channels, admins,
                   report, reply>>

\* Somebody other than the bot deletes a managed channel.
ExternalDelete(c) ==
    /\ events < MaxEvents
    /\ c \in DOMAIN channels
    /\ NTasks + Cardinality(Disconnected(c)) <= MaxTasks
    /\ channels' = ChannelsAfterDelete(c)
    /\ messages' = Pop(messages, c)
    /\ voice' = VoiceAfterDelete(c)
    /\ tasks' = tasks (+) SetToBag(Disconnected(c))
    /\ events' = events + 1
    /\ result' = "none"
    /\ UNCHANGED <<next_id, created_channels, admins, report, reply>>

\* _cleanup_empty_channel called on its own, for any channel the bot ever
\* created and in any state of the registry and of the channel.
CleanupCall(c) ==
    /\ events < MaxEvents
    /\ NTasks < MaxTasks
    /\ c < next_id
    /\ LET e == CleanupEntry(c, created_channels) IN
        /\ tasks' = IF e = "return" THEN tasks
                    ELSE tasks (+) SetToBag({Task("call", "", NoChannel, NoChannel,
                                                  c, e)})
        /\ result' = IF e = "return" THEN "returned" ELSE "none"
    /\ events' = events + 1
    /\ UNCHANGED <<voice, channels, messages, next_id, created_channels, admins,
                   report, reply>>

\* ---------------------------------------------------- ChannelControlView
\* interaction_check: the creator the view was built with, or an
\* administrator.
interaction_check(u, c) == u = messages[c] \/ u \in admins

PanelTask(kind, u, c, pc) == Task(kind, u, NoChannel, NoChannel, c, pc)

\* The channel's overwrites as the cache holds them; the view keeps the
\* channel object, so a deleted channel still has its last ones.
Overwrites(c) == IF c \in DOMAIN channels THEN channels[c].overwrites ELSE <<>>

\* Mutant: the denial rule replaces the channel's overwrites.
PrivateOverwrites_Only(ow) ==
    [x \in {default_role} |-> {<<"connect", FALSE>>}]

\* overwrites[default_role] = PermissionOverwrite(connect=False)
PrivateOverwrites(ow) ==
    [x \in DOMAIN ow \cup {default_role} |->
        IF x = default_role THEN {<<"connect", FALSE>>} ELSE ow[x]]

\* if default_role in overwrites: del overwrites[default_role]
PublicOverwrites(ow) == [x \in DOMAIN ow \ {default_role} |-> ow[x]]

\* The interaction a rejected member gets no further than.
Rejected(u) ==
    /\ reply' = [reply EXCEPT ![u] = "rejected"]
    /\ UNCHANGED tasks

\* A member presses one of the five buttons of the control message of
\* channel c.  The check runs, then the button's callback to its first await.
Click(u, c, button) ==
    /\ events < MaxEvents
    /\ NTasks < MaxTasks
    /\ c \in DOMAIN messages
    /\ IF ~interaction_check(u, c) THEN Rejected(u)
       ELSE \/ /\ button = "make_private"
               /\ tasks' = tasks (+) SetToBag({[PanelTask("edit", u, c, "overwrites")
                     EXCEPT !.overwrites = PrivateOverwrites(Overwrites(c))]})
               /\ UNCHANGED reply
            \/ /\ button = "make_public"
               /\ tasks' = tasks (+) SetToBag({[PanelTask("edit", u, c, "overwrites")
                     EXCEPT !.overwrites = PublicOverwrites(Overwrites(c))]})
               /\ UNCHANGED reply
            \/ /\ button = "set_user_limit"
               /\ tasks' = tasks (+) SetToBag({PanelTask("limit", u, c, "modal")})
               /\ reply' = [reply EXCEPT ![u] = "modal"]
            \/ /\ button = "rename_channel"
               /\ tasks' = tasks (+) SetToBag({PanelTask("rename", u, c, "modal")})
               /\ reply' = [reply EXCEPT ![u] = "modal"]
            \/ /\ button = "delete_channel"
               /\ tasks' = tasks (+) SetToBag({PanelTask("delete", u, c, "sleep")})
               /\ reply' = [reply EXCEPT ![u] = "countdown"]
    /\ events' = events + 1
    /\ result' = "none"
    /\ UNCHANGED <<voice, channels, messages, next_id, created_channels, admins,
                   report>>

Buttons == {"make_private", "make_public", "set_user_limit", "rename_channel",
            "delete_channel"}

\* int(self.user_limit.value): surrounding blanks are dropped, then an
\* optional sign and at least one digit.  The text is a sequence of
\* characters.
DigitChars == <<"0", "1", "2", "3", "4", "5", "6", "7", "8", "9">>

DigitValue(ch) == (CHOOSE i \in 1..10 : DigitChars[i] = ch) - 1

RECURSIVE Strip(_)
Strip(s) ==
    IF s = <<>> THEN s
    ELSE IF Head(s) = " " THEN Strip(Tail(s))
    ELSE IF s[Len(s)] = " " THEN Strip(SubSeq(s, 1, Len(s) - 1))
    ELSE s

Unsigned(s) == IF s # <<>> /\ Head(s) \in {"-", "+"} THEN Tail(s) ELSE s

IsInt(s) ==
    LET d == Unsigned(Strip(s))
    IN d # <<>> /\ \A i \in 1..Len(d) : \E k \in 1..10 : DigitChars[k] = d[i]

RECURSIVE Magnitude(_)
Magnitude(d) ==
    IF d = <<>> THEN 0
    ELSE 10 * Magnitude(SubSeq(d, 1, Len(d) - 1)) + DigitValue(d[Len(d)])

\* Mutant: the sign of the number is dropped.
ParseInt_Unsigned(s) == Magnitude(Unsigned(Strip(s)))

ParseInt(s) ==
    LET t == Strip(s)
    IN IF Head(t) = "-" THEN 0 - Magnitude(Unsigned(t)) ELSE Magnitude(Unsigned(t))

LimitInputs == {<<"5">>, <<"9", "9">>, <<"0">>, <<"-", "1">>, <<"1", "0", "0">>,
                <<"1", "5", "0">>, <<"a", "b", "c">>}

RenameInputs == {"lounge"}

Authorized(t) == t.ch \in DOMAIN messages /\ interaction_check(t.member, t.ch)

\* UserLimitModal.on_submit with the text the member typed, to its await of
\* channel.edit or to its end.
SubmitLimit(t, text) ==
    /\ t.kind = "limit" /\ t.pc = "modal"
    /\ IF ~IsInt(text)
       THEN /\ reply' = [reply EXCEPT ![t.member] = "not_a_number"]
            /\ tasks' = Replace(t, {})
       ELSE IF ParseInt(text) < 0 \/ ParseInt(text) > 99
       THEN /\ reply' = [reply EXCEPT ![t.member] = "out_of_range"]
            /\ tasks' = Replace(t, {})
       ELSE /\ UNCHANGED reply
            /\ tasks' = Replace(t, {[t EXCEPT !.kind = "edit", !.pc = "user_limit",
                                              !.user_limit = ParseInt(text),
                                              !.auth = Authorized(t)]})
    /\ result' = "none"
    /\ UNCHANGED <<voice, channels, messages, next_id, created_channels, admins,
                   report, events>>

\* RenameModal.on_submit with the text the member typed, to its await of
\* channel.edit.
SubmitRename(t, text) ==
    /\ t.kind = "rename" /\ t.pc = "modal"
    /\ tasks' = Replace(t, {[t EXCEPT !.kind = "edit", !.pc = "name", !.name = text,
                                      !.auth = Authorized(t)]})
    /\ result' = "none"
    /\ UNCHANGED <<voice, channels, messages, next_id, created_channels, admins,
                   report, reply, events>>

\* The channel after channel.edit(<attribute> = <value>) succeeded.
Edited(t) ==
    IF t.pc = "overwrites" THEN [channels[t.ch] EXCEPT !.overwrites = t.overwrites]
    ELSE IF t.pc = "user_limit" THEN [channels[t.ch] EXCEPT !.user_limit = t.user_limit]
    ELSE [channels[t.ch] EXCEPT !.name = t.name]

\* await self.channel.edit(...) returns in a button callback or a modal's
\* on_submit, and the response is sent.
EditDone(t) ==
    /\ t.kind = "edit"
    /\ \E o \in ChannelOutcomes(t.ch) :
        /\ channels' = IF o = "ok" THEN [channels EXCEPT ![t.ch] = Edited(t)]
                       ELSE channels
        /\ reply' = [reply EXCEPT ![t.member] = IF o = "ok" THEN "done" ELSE "error"]
    /\ tasks' = Replace(t, {})
    /\ result' = "none"
    /\ UNCHANGED <<voice, messages, next_id, created_channels, admins, report,
                   events>>

\* Mutant: the Delete action gives up when somebody is connected.
PanelDelete_IfEmpty(t) ==
    /\ t.kind = "delete" /\ t.pc = "sleep"
    /\ \E o \in ChannelOutcomes(t.ch) :
        LET done == o = "ok" /\ is_channel_empty(t.ch)
        IN /\ result' = IF is_channel_empty(t.ch) THEN o ELSE "none"
           /\ tasks' = Replace(t, {})
           /\ channels' = IF done THEN ChannelsAfterDelete(t.ch) ELSE channels
           /\ messages' = IF done THEN Pop(messages, t.ch) ELSE messages
           /\ reply' = IF o = "ok" THEN reply
                       ELSE [reply EXCEPT ![t.member] = "error"]
    /\ UNCHANGED <<voice, next_id, created_channels, admins, report, events>>

\* delete_channel: await asyncio.sleep(CHANNEL_DELETE_DELAY) has returned and
\* await self.channel.delete() returns.  The registry is not touched.
PanelDelete(t) ==
    /\ t.kind = "delete" /\ t.pc = "sleep"
    /\ \E o \in ChannelOutcomes(t.ch) :
        LET gone == IF o = "ok" THEN Disconnected(t.ch) ELSE {}
        IN /\ Room(t, gone)
           /\ result' = o
           /\ tasks' = Replace(t, gone)
           /\ channels' = IF o = "ok" THEN ChannelsAfterDelete(t.ch) ELSE channels
           /\ messages' = IF o = "ok" THEN Pop(messages, t.ch) ELSE messages
           /\ voice' = IF o = "ok" THEN VoiceAfterDelete(t.ch) ELSE voice
           /\ reply' = IF o = "ok" THEN reply
                       ELSE [reply EXCEPT ![t.member] = "error"]
    /\ UNCHANGED <<next_id, created_channels, admins, report, events>>

\* A guild administrator grants or withdraws a member's administrator
\* permission.
SetAdministrator(u) ==
    /\ admins' = IF u \in admins THEN admins \ {u} ELSE admins \cup {u}
    /\ result' = "none"
    /\ UNCHANGED <<voice, channels, messages, next_id, created_channels, tasks,
                   report, reply, events>>

\* ------------------------------------------------------- specification
Init ==
    /\ voice = [u \in Users |-> NoChannel]
    /\ channels = <<>>
    /\ messages = <<>>
    /\ next_id = MAIN_CHANNEL_ID + 1
    /\ created_channels = <<>>
    /\ tasks = EmptyBag
    /\ admins = {}
    /\ result = "none"
    /\ report = -1
    /\ reply = [u \in Users |-> "none"]
    /\ events = 0

Live == BagToSet(tasks)

\* The coroutines of the lifecycle controller resuming.
Lifecycle ==
    \/ \E t \in Live : VoiceStart(t)
    \/ \E t \in Live : VoiceCreate(t)
    \/ \E t \in Live : VoiceMove(t)
    \/ \E t \in Live : VoicePost(t)
    \/ \E t \in Live : MonitorStart(t)
    \/ \E t \in Live : MonitorTick(t)
    \/ \E t \in Live : CmFetch(t)
    \/ \E t \in Live : CmDelete(t)
    \/ \E t \in Live : ChDelete(t)

Join == \E u \in Users, x \in {NoChannel, MAIN_CHANNEL_ID} \cup ChannelIds :
            VoiceStateUpdate(u, x)

Next ==
    \/ Join
    \/ Lifecycle

NextAdmin ==
    \/ Join
    \/ Lifecycle
    \/ \E c \in ChannelIds : ExternalDelete(c)
    \/ CleanupCommand
    \/ \E t \in Live : SweepSend(t)

Panel ==
    \/ \E u \in Users, c \in ChannelIds, b \in Buttons : Click(u, c, b)
    \/ \E t \in Live, text \in LimitInputs : SubmitLimit(t, text)
    \/ \E t \in Live, text \in RenameInputs : SubmitRename(t, text)
    \/ \E t \in Live : EditDone(t)
    \/ \E t \in Live : PanelDelete(t)
    \/ \E u \in Users : SetAdministrator(u)

NextPanel ==
    \/ Join
    \/ Lifecycle
    \/ Panel

\* Joins, leaves and switches together with flag updates of connected
\* members.
NextFlags ==
    \/ Join
    \/ Lifecycle
    \/ \E u \in Users : VoiceFlagUpdate(u)

\* Everything together: joins, the lifecycle, external deletions, the
\* cleanup command and the control panel.
NextAll ==
    \/ Join
    \/ Lifecycle
    \/ \E c \in ChannelIds : ExternalDelete(c)
    \/ CleanupCommand
    \/ \E t \in Live : SweepSend(t)
    \/ Panel

\* The lifecycle with the deletion procedure also called on its own.
NextProcedure ==
    \/ Join
    \/ Lifecycle
    \/ \E c \in ChannelIds : CleanupCall(c)

\* Members also join and leave a channel the bot did not create, next to
\* external deletions and the cleanup command.
NextGuild ==
    \/ Join
    \/ \E u \in Users : VoiceStateUpdate(u, UnmanagedChannel)
    \/ Lifecycle
    \/ \E c \in ChannelIds : ExternalDelete(c)
    \/ CleanupCommand
    \/ \E t \in Live : SweepSend(t)

Spec == Init /\ [][Next]_vars

SpecGuild == Init /\ [][NextGuild]_vars

SpecProcedure == Init /\ [][NextProcedure]_vars

SpecAll == Init /\ [][NextAll]_vars

SpecFlags == Init /\ [][NextFlags]_vars

SpecAdmin == Init /\ [][NextAdmin]_vars

SpecPanel == Init /\ [][NextPanel]_vars


\* ------------------------------------------------------------ the claims
\* Task t resumed in this step.
Stepped(t) == CopiesIn(t, tasks') < CopiesIn(t, tasks)

\* A task of the given description is added in this step.
Added(t) == CopiesIn(t, tasks') > CopiesIn(t, tasks)

Added1 == {t \in BagToSet(tasks') : Added(t)}

DeletionPcs == {"cm_fetch", "cm_delete", "ch_delete"}

\* C1: whenever the deletion procedure issues the channel delete call (a
\* coroutine becomes suspended in `await channel.delete()`), nobody is
\* connected to the channel at that moment.
C1_DeleteIssuedOnlyWhenEmpty ==
    [][\A t \in Added1 :
          t.pc = "ch_delete" => {u \in Users : voice'[u] = t.ch} = {}]_vars

\* C2: when member.move_to fails because the member is connected to no
\* channel any more, the channel stays registered and its monitoring loop
\* is there to delete it.
C2_MonitorAfterFailedMove ==
    [][\A t \in Live :
          (Stepped(t) /\ t.kind = "voice" /\ t.pc = "move"
           /\ voice[t.member] = NoChannel)
          => /\ t.ch \in DOMAIN created_channels'
             /\ \E m \in BagToSet(tasks') : m.kind = "monitor" /\ m.ch = t.ch]_vars

\* C3: when the channel delete call of the monitoring loop's deletion
\* procedure comes back forbidden, the entry stays in the registry and the
\* monitoring loop keeps running to try again at its next tick.
C3_MonitorRetriesAfterForbidden ==
    [][\A t \in Live :
          (Stepped(t) /\ t.kind = "monitor" /\ t.pc = "ch_delete"
           /\ result' = "forbidden")
          => /\ t.ch \in DOMAIN created_channels'
             /\ \E m \in BagToSet(tasks') : m.kind = "monitor" /\ m.ch = t.ch]_vars

\* C4: a step removes a registry entry only when it completes a channel
\* delete call for that channel that succeeded or raised not-found, or when
\* the channel cannot be resolved by its id.
C4_RemovalOnlyAfterDeleteOrNotFound ==
    [][\A c \in DOMAIN created_channels :
          c \notin DOMAIN created_channels'
          => \/ \E t \in Live : /\ Stepped(t) /\ t.pc = "ch_delete" /\ t.ch = c
                                /\ result' \in {"ok", "not_found"}
             \/ get_channel(c) = NoChannel]_vars

\* C4 witness: an entry was removed on a successful delete.
C4_Witness ==
    /\ result = "ok"
    /\ \E c \in ChannelIds :
          c < next_id /\ c \notin DOMAIN created_channels /\ c \notin DOMAIN channels

\* C5: no execution ends (no coroutine is left to run) with a channel the
\* bot deleted still in the registry; in SpecPanel only the bot deletes
\* channels.
C5_DeletedChannelLeavesRegistry ==
    Live = {} => \A c \in DOMAIN created_channels : c \in DOMAIN channels

\* C6: the count the cleanup command is about to report is the number of
\* channels its deletion procedures deleted.
C6_ReportCountsDeletions ==
    \A t \in Live : (t.kind = "sweep" /\ t.pc = "send") => t.cleaned = t.deleted

\* The coroutine of task t ended in this step: nothing continues it.
Ended(t) ==
    /\ Stepped(t)
    /\ ~\E n \in Added1 : /\ n.kind = t.kind /\ n.member = t.member
                          /\ n.before = t.before /\ n.after = t.after

\* The channel a handler or a monitoring loop looks after.
Charge(t) == IF t.kind = "voice" THEN t.before ELSE t.ch

\* C7: when the handler of a member's leave of a managed channel, or a
\* monitoring loop, ends with the channel empty and its delete call (if it
\* made one) not failed, the channel is deleted and not in the registry.
C7_EmptyChannelDeletedByLeaveOrTick ==
    [][\A t \in Live :
          (/\ t.kind \in {"voice", "monitor"}
           /\ Ended(t)
           /\ Charge(t) \in ChannelIds
           /\ t.kind = "voice" => t.after # t.before
           /\ {u \in Users : voice'[u] = Charge(t)} = {}
           /\ result' \notin {"forbidden", "error"})
          => /\ Charge(t) \notin DOMAIN channels'
             /\ Charge(t) \notin DOMAIN created_channels']_vars

\* C7 witness: a leave handler's delete call has just succeeded, nobody is
\* connected and nothing is registered.
C7_Witness ==
    /\ result = "ok"
    /\ \A u \in Users : voice[u] = NoChannel
    /\ next_id > MAIN_CHANNEL_ID + 1
    /\ DOMAIN created_channels = {} /\ DOMAIN channels = {}
    /\ \A t \in Live : t.kind # "monitor" \/ t.pc = "sleep"

\* C8: a lobby join whose calls all succeed creates exactly one channel,
\* named after the member, in the category, unlimited, with the member's
\* grant, registers it under its id with the member as owner, and moves the
\* member into it; all of which still holds when the handler has posted the
\* control message.
ExpectedChannel(u) ==
    [name |-> "speaker " \o u, category |-> MAIN_CATEGORY_ID, user_limit |-> 0,
     overwrites |-> [x \in {u} |-> {<<"manage_channels", TRUE>>,
                                    <<"manage_permissions", TRUE>>,
                                    <<"move_members", TRUE>>}]]

C8_CreationPostcondition ==
    [][\A t \in Live :
          (Stepped(t) /\ t.kind = "voice" /\ t.after = MAIN_CHANNEL_ID)
          => /\ \A n \in Added1 :
                  (t.pc = "create" /\ n.pc = "move")
                  => /\ n.member = t.member
                     /\ n.ch \notin DOMAIN channels
                     /\ DOMAIN channels' = DOMAIN channels \cup {n.ch}
                     /\ channels'[n.ch] = ExpectedChannel(t.member)
                     /\ n.ch \notin DOMAIN created_channels
                     /\ DOMAIN created_channels' = DOMAIN created_channels \cup {n.ch}
                     /\ created_channels'[n.ch].creator = t.member
             /\ \A n \in Added1 :
                  (t.pc = "move" /\ n.pc = "post")
                  => /\ voice'[t.member] = t.ch
                     /\ channels'[t.ch] = ExpectedChannel(t.member)
                     /\ created_channels'[t.ch].creator = t.member
             /\ (t.pc = "post" /\ t.ch \in DOMAIN messages')
                => /\ channels'[t.ch] = ExpectedChannel(t.member)
                   /\ created_channels'[t.ch] =
                        [creator |-> t.member, control_message |-> t.ch]
                   /\ DOMAIN channels' = DOMAIN channels
                   /\ DOMAIN created_channels' = DOMAIN created_channels]_vars

\* C8 witness: a member sits in the channel created for them, which is
\* registered with them as owner and has its control message.
C8_Witness ==
    \E c \in DOMAIN created_channels :
        /\ created_channels[c].control_message = c
        /\ c \in DOMAIN messages
        /\ voice[created_channels[c].creator] = c

\* C9: once a tracked channel is gone, the next tick of its monitoring loop
\* removes its entry and no other; the handler of a leave from it enters
\* the deletion procedure, which goes to the delete call touching no entry
\* and, when that call raises not-found, removes that entry and no other.
C9_ExternalDeletionObserved ==
    [][\A t \in Live :
          (Stepped(t) /\ Charge(t) \in DOMAIN created_channels
           /\ Charge(t) \notin DOMAIN channels)
          => /\ (t.kind = "monitor" /\ t.pc = "sleep")
                => /\ created_channels' = Pop(created_channels, t.ch)
                   /\ Ended(t)
             /\ (t.kind = "voice" /\ t.pc = "start" /\ t.after = NoChannel)
                => /\ \E n \in Added1 : n.pc \in DeletionPcs /\ n.ch = t.before
                   /\ created_channels' = created_channels
             /\ (t.kind = "voice" /\ t.pc \in {"cm_fetch", "cm_delete"})
                => /\ \E n \in Added1 : n.pc = "ch_delete" /\ n.ch = t.before
                   /\ created_channels' = created_channels
             /\ (t.kind = "voice" /\ t.pc = "ch_delete" /\ result' = "not_found")
                => /\ created_channels' = Pop(created_channels, t.ch)
                   /\ Ended(t)]_vars

\* C9 witness: a channel somebody else deleted is still registered and its
\* monitoring loop is asleep; another channel is registered too.
C9_Witness ==
    \E t \in Live :
        /\ t.kind = "monitor" /\ t.pc = "sleep"
        /\ t.ch \in DOMAIN created_channels
        /\ t.ch \notin DOMAIN channels
        /\ DOMAIN created_channels # {t.ch}

IsPanel(t) == t.kind \in {"edit", "limit", "rename", "delete"}

\* C10: a control panel coroutine whose member was neither the owner nor
\* an administrator when they sent its last interaction (the click or the
\* form submission) never changes a channel and answers with the
\* rejection notice.
C10_UnauthorizedNeverMutates ==
    [][\A t \in Live :
          (Stepped(t) /\ IsPanel(t) /\ ~t.auth)
          => /\ channels' = channels
             /\ reply'[t.member] = "rejected"]_vars

\* What each text typed into the limit form stands for: the limit it asks
\* for, -1 for a number out of range, -2 for no number.
C11_Meaning ==
    [text \in LimitInputs |->
        CASE text = <<"5">> -> 5
          [] text = <<"9", "9">> -> 99
          [] text = <<"0">> -> 0
          [] text = <<"-", "1">> -> -1
          [] text = <<"1", "0", "0">> -> -1
          [] text = <<"1", "5", "0">> -> -1
          [] text = <<"a", "b", "c">> -> -2]

\* C11: a limit submission asks for the edit to n exactly when the text is
\* an integer n in 0..99, and the edit once done sets the channel's limit
\* to n and nothing else; a number out of range gets the range message and
\* a text that is no number gets a different message, both leaving every
\* channel and the registry as they were; no other step changes a limit.
C11_LimitSubmission ==
    [][/\ \A t \in Live, text \in LimitInputs :
            SubmitLimit(t, text)
            => LET n == C11_Meaning[text] IN
               /\ channels' = channels
               /\ created_channels' = created_channels
               /\ n >= 0 => /\ Cardinality(Added1) = 1
                            /\ \A a \in Added1 :
                                  /\ a.kind = "edit" /\ a.pc = "user_limit"
                                  /\ a.user_limit = n /\ a.ch = t.ch
                                  /\ a.member = t.member
                            /\ reply' = reply
               /\ n = -1 => /\ reply'[t.member] = "out_of_range"
                            /\ Added1 = {}
               /\ n = -2 => /\ reply'[t.member] = "not_a_number"
                            /\ Added1 = {}
       /\ \A t \in Live :
            (Stepped(t) /\ t.kind = "edit" /\ t.pc = "user_limit"
             /\ reply'[t.member] = "done")
            => /\ channels' = [channels EXCEPT ![t.ch].user_limit = t.user_limit]
               /\ created_channels' = created_channels
       /\ \A c \in DOMAIN channels \cap DOMAIN channels' :
            channels'[c].user_limit # channels[c].user_limit
            => \E t \in Live : /\ Stepped(t) /\ t.kind = "edit"
                               /\ t.pc = "user_limit" /\ t.ch = c
                               /\ channels'[c].user_limit = t.user_limit
                               /\ t.user_limit \in 0..99]_vars

\* C11 witness: a submission of "99" was applied and answered.
C11_Witness ==
    /\ \E c \in DOMAIN channels : channels[c].user_limit = 99
    /\ \E u \in Users : reply[u] = "done"

\* C12: a step in which the creation of a lobby join fails before a channel
\* exists (the category is not found, or create_voice_channel raises)
\* changes neither the registry nor the guild's channels, moves nobody and
\* starts no monitoring loop; and an entry is only ever added by the step
\* in which create_voice_channel succeeds.
C12_FailedCreationLeavesRegistry ==
    [][/\ \A t \in Live :
            (/\ Stepped(t) /\ t.kind = "voice" /\ t.after = MAIN_CHANNEL_ID
             /\ t.pc \in {"start", "create"}
             /\ ~\E n \in Added1 : n.kind = "voice" /\ n.pc \in {"create", "move"})
            => /\ created_channels' = created_channels
               /\ channels' = channels
               /\ voice' = voice
               /\ ~\E n \in Added1 : n.kind = "monitor"
       /\ DOMAIN created_channels' \ DOMAIN created_channels # {}
          => \E t \in Live : /\ Stepped(t) /\ t.kind = "voice" /\ t.pc = "create"
                             /\ \E n \in Added1 : n.pc = "move"
                             /\ DOMAIN created_channels' \ DOMAIN created_channels
                                  = DOMAIN channels' \ DOMAIN channels]_vars

\* C12 witness: a member sits in the lobby, the handler of the join has
\* ended and no channel was ever created.
C12_Witness ==
    /\ \E u \in Users : voice[u] = MAIN_CHANNEL_ID
    /\ Live = {}
    /\ next_id = MAIN_CHANNEL_ID + 1
    /\ DOMAIN created_channels = {}

\* C13: a managed channel is created only by the handler of an event that
\* took the member into the lobby from somewhere else; the handler of an
\* event reported with the member in the lobby before and after creates
\* none.
C13_CreationOnlyOnTransition ==
    [][\A t \in Live :
          (/\ Stepped(t) /\ t.kind = "voice" /\ t.pc = "create"
           /\ DOMAIN channels' # DOMAIN channels)
          => t.before # MAIN_CHANNEL_ID]_vars

\* The number of coroutines in flight among those of the set S.
RECURSIVE CountTasks(_)
CountTasks(S) ==
    IF S = {} THEN 0
    ELSE LET x == CHOOSE y \in S : TRUE
         IN CopiesIn(x, tasks) + CountTasks(S \ {x})

\* The monitoring loops of channel c, wherever they are suspended.
MonitorsOf(c) == {t \in Live : t.kind = "monitor" /\ t.ch = c}

\* C14: in every reachable state at most one monitoring loop is in flight
\* for each managed channel id.
C14_OneMonitorPerChannel ==
    \A c \in ChannelIds : CountTasks(MonitorsOf(c)) <= 1

\* C14 witness: two managed channels are tracked, each with its monitoring
\* loop asleep.
C14_Witness ==
    /\ Cardinality(DOMAIN created_channels) = 2
    /\ \A c \in DOMAIN created_channels :
          \E t \in MonitorsOf(c) : t.pc = "sleep"

\* C15: a monitoring loop ends only when its channel's id has left the
\* registry, and it issues no channel delete call (it does not become
\* suspended in `await channel.delete()`) once the id has left the
\* registry.
C15_MonitorRunsWhileRegistered ==
    [][\A t \in Live :
          (Stepped(t) /\ t.kind = "monitor")
          => /\ Ended(t) => t.ch \notin DOMAIN created_channels'
             /\ t.ch \notin DOMAIN created_channels
                => ~\E n \in Added1 : n.kind = "monitor" /\ n.pc = "ch_delete"]_vars

\* C16: the deletion procedure called for a channel id that is not in the
\* registry, or for a registered channel somebody is connected to, makes
\* no platform call (it becomes suspended in none) and leaves the registry,
\* the channels and the control messages as they were.
C16_ProcedureNoOp ==
    [][\A c \in ChannelIds :
          (/\ CleanupCall(c)
           /\ \/ c \notin DOMAIN created_channels
              \/ {u \in Users : voice[u] = c} # {})
          => /\ tasks' = tasks
             /\ created_channels' = created_channels
             /\ channels' = channels
             /\ messages' = messages]_vars

\* C16 witness: the procedure was called and returned at once for a
\* registered channel with a member inside.
C16_Witness ==
    /\ result = "returned"
    /\ DOMAIN created_channels # {}
    /\ \A c \in DOMAIN created_channels : \E u \in Users : voice[u] = c

\* C17: the channel delete call of the deletion procedure is issued either
\* right after the calls on the recorded control message or for an entry
\* that records none; whatever the calls on the control message come back
\* with, the procedure goes on to the channel delete call; and when that
\* call succeeds the entry is removed.
C17_ControlMessageBeforeChannel ==
    [][/\ \A n \in Added1 :
            n.pc = "ch_delete"
            => \/ \E t \in Live : /\ Stepped(t) /\ t.pc \in {"cm_fetch", "cm_delete"}
                                  /\ t.ch = n.ch /\ t.kind = n.kind
               \/ /\ n.ch \in DOMAIN created_channels'
                  /\ created_channels'[n.ch].control_message = NoMessage
       /\ \A t \in Live :
            (Stepped(t) /\ t.pc = "cm_fetch")
            => \E n \in Added1 : /\ n.kind = t.kind /\ n.ch = t.ch
                                 /\ n.pc \in {"cm_delete", "ch_delete"}
       /\ \A t \in Live :
            (Stepped(t) /\ t.pc = "cm_delete")
            => \E n \in Added1 : n.kind = t.kind /\ n.ch = t.ch /\ n.pc = "ch_delete"
       /\ \A t \in Live :
            (Stepped(t) /\ t.pc = "ch_delete" /\ result' = "ok")
            => /\ t.ch \notin DOMAIN created_channels'
               /\ t.ch \notin DOMAIN channels']_vars

\* C17 witness: the control message recorded for a channel was deleted and
\* the procedure is suspended in the channel delete call.
C17_Witness ==
    \E t \in Live :
        /\ t.pc = "ch_delete"
        /\ t.ch \in DOMAIN created_channels /\ t.ch \in DOMAIN channels
        /\ created_channels[t.ch].control_message # NoMessage
        /\ t.ch \notin DOMAIN messages

\* C18: the step that starts the panel's Delete action is taken for an
\* authorized member, announces the countdown and changes neither the
\* channels, the registry nor who is connected; after the delay the action
\* always makes the channel delete call, whoever is connected, and when the
\* call succeeds the channel is gone with the registry as it was.
C18_PanelDeleteOverride ==
    [][/\ \A n \in Added1 :
            n.kind = "delete"
            => /\ n.pc = "sleep"
               /\ n.member = messages[n.ch] \/ n.member \in admins
               /\ reply'[n.member] = "countdown"
               /\ channels' = channels
               /\ created_channels' = created_channels
               /\ voice' = voice
       /\ \A t \in Live :
            (Stepped(t) /\ t.kind = "delete")
            => /\ result' \in {"ok", "not_found", "forbidden", "error"}
               /\ created_channels' = created_channels
               /\ result' = "ok" <=> (t.ch \in DOMAIN channels
                                      /\ t.ch \notin DOMAIN channels')
               /\ result' # "ok" => channels' = channels /\ voice' = voice]_vars

\* C18 witness: the Delete action has just deleted a channel with a member
\* connected to it, whose disconnection is being reported; the channel is
\* still registered.
C18_Witness ==
    /\ result = "ok"
    /\ \E t \in Live :
          /\ t.kind = "voice" /\ t.pc = "start" /\ t.after = NoChannel
          /\ t.before \in DOMAIN created_channels
          /\ t.before \notin DOMAIN channels
          /\ voice[t.member] = NoChannel

\* The overwrites ow with the rule of the default role left out.
OtherTargets(ow) == {<<x, ow[x]>> : x \in DOMAIN ow \ {"@everyone"}}

\* C19: the edit Make private asks for has the connect denial for the
\* default role, the edit Make public asks for has no rule for the default
\* role, and both keep the rule of every other target; an overwrites edit
\* that succeeds applies what was asked for, changes the rule of no other
\* target and no other attribute, so that Make public applied to a private
\* channel leaves no denial.
C19_PrivatePublicFrame ==
    [][/\ \A n \in Added1 :
            (n.kind = "edit" /\ n.pc = "overwrites")
            => /\ Click(n.member, n.ch, "make_private")
                  => /\ "@everyone" \in DOMAIN n.overwrites
                     /\ n.overwrites["@everyone"] = {<<"connect", FALSE>>}
               /\ Click(n.member, n.ch, "make_public")
                  => "@everyone" \notin DOMAIN n.overwrites
               /\ OtherTargets(n.overwrites) = OtherTargets(channels[n.ch].overwrites)
               /\ channels' = channels
       /\ \A t \in Live :
            (/\ Stepped(t) /\ t.kind = "edit" /\ t.pc = "overwrites"
             /\ reply'[t.member] = "done")
            => /\ channels'[t.ch].overwrites = t.overwrites
               /\ OtherTargets(channels'[t.ch].overwrites)
                    = OtherTargets(channels[t.ch].overwrites)
               /\ t.ch \in DOMAIN created_channels
                  => <<created_channels[t.ch].creator,
                       {<<"manage_channels", TRUE>>, <<"manage_permissions", TRUE>>,
                        <<"move_members", TRUE>>}>>
                     \in OtherTargets(channels'[t.ch].overwrites)
               /\ channels'[t.ch].name = channels[t.ch].name
               /\ channels'[t.ch].user_limit = channels[t.ch].user_limit
               /\ \A c \in DOMAIN channels \ {t.ch} : channels'[c] = channels[c]
               /\ DOMAIN channels' = DOMAIN channels]_vars

\* C19 witness: Make public was pressed and its edit is on its way to a
\* channel that is private.
C19_Witness ==
    \E t \in Live :
        /\ t.kind = "edit" /\ t.pc = "overwrites"
        /\ "@everyone" \notin DOMAIN t.overwrites
        /\ t.ch \in DOMAIN channels
        /\ "@everyone" \in DOMAIN channels[t.ch].overwrites

\* C20: an id the platform has handed out and that is not in the registry
\* never enters it again, and no monitoring loop is started for an id that
\* is not in the registry.
C20_RemovedIdStaysRemoved ==
    [][/\ \A c \in ChannelIds :
            (c < next_id /\ c \notin DOMAIN created_channels)
            => c \notin DOMAIN created_channels'
       /\ \A n \in Added1 :
            (n.kind = "monitor" /\ n.pc = "start")
            => n.ch \in DOMAIN created_channels']_vars

\* C21: a channel delete call of the deletion procedure succeeds only for
\* a channel that still exists and a deleted channel never exists again,
\* so of two procedures for the same channel at most one succeeds; the one
\* whose call comes back with success or not-found leaves the registry
\* without the channel's id and with every other entry as it was (the
\* cleanup command, going on with its loop, may only drop entries of
\* channels that cannot be resolved), and whatever the call comes back with
\* the handler ends (the step adds nothing but the events of members the
\* deletion disconnected) or the cleanup command goes on.
C21_InterleavedDeletions ==
    [][/\ \A c \in ChannelIds :
            (c < next_id /\ c \notin DOMAIN channels) => c \notin DOMAIN channels'
       /\ \A t \in Live :
            (Stepped(t) /\ t.pc = "ch_delete")
            => /\ result' = "ok" => (t.ch \in DOMAIN channels
                                    /\ t.ch \notin DOMAIN channels')
               /\ t.ch \notin DOMAIN channels => result' \in {"not_found", "error"}
               /\ result' \in {"ok", "not_found"}
                  => /\ t.ch \notin DOMAIN created_channels'
                     /\ \A c \in DOMAIN created_channels \ {t.ch} :
                           \/ /\ c \in DOMAIN created_channels'
                              /\ created_channels'[c] = created_channels[c]
                           \/ /\ t.kind = "sweep"
                              /\ c \notin DOMAIN channels
                              /\ c \notin DOMAIN created_channels'
                     /\ DOMAIN created_channels' \subseteq DOMAIN created_channels
               /\ IF t.kind = "sweep"
                  THEN \E n \in Added1 : n.kind = "sweep"
                  ELSE \A n \in Added1 : n.kind = "voice" /\ n.pc = "start"]_vars

\* C21 witness: two deletion procedures have both passed their checks for
\* the same channel and both are suspended in its delete call, while
\* another channel is registered.
C21_Witness ==
    \E t1 \in Live, t2 \in Live :
        /\ t1 # t2
        /\ t1.pc = "ch_delete" /\ t2.pc = "ch_delete"
        /\ t1.ch = t2.ch
        /\ t1.ch \in DOMAIN channels /\ t1.ch \in DOMAIN created_channels
        /\ DOMAIN created_channels # {t1.ch}

\* The ids of the channels the bot has created so far.
CreatedIds == (MAIN_CHANNEL_ID + 1)..(next_id - 1)

\* C22: in every reachable state the keys of the registry are ids of
\* channels the bot created, never the lobby or a channel it did not
\* create, and every deletion in progress (control message calls and the
\* channel delete call of the leave handler, a monitoring loop or the
\* cleanup command) is for a channel the bot created.
C22_RegistryHoldsOwnChannels ==
    /\ DOMAIN created_channels \subseteq CreatedIds
    /\ MAIN_CHANNEL_ID \notin DOMAIN created_channels
    /\ UnmanagedChannel \notin DOMAIN created_channels
    /\ \A t \in Live :
          t.pc \in DeletionPcs
          => /\ t.ch \in CreatedIds
             /\ t.ch # MAIN_CHANNEL_ID /\ t.ch # UnmanagedChannel

\* C22 witness: the last member has left the channel the bot did not
\* create and the handler of that leave is about to run, while a managed
\* channel is registered and the lobby is empty too.
C22_Witness ==
    /\ DOMAIN created_channels # {}
    /\ \A u \in Users : voice[u] \notin {MAIN_CHANNEL_ID, UnmanagedChannel}
    /\ \E t \in Live :
          /\ t.kind = "voice" /\ t.pc = "start"
          /\ t.before = UnmanagedChannel

====
